---- MODULE Spec2Model ----
(***************************************************************************)
(* Model of python-add-module-as-layer.py: lambda_handler downloads a     *)
(* wheel with pip into /tmp, rewrites every archive entry under the       *)
(* site-packages prefix, publishes the new zip as a Lambda layer and      *)
(* removes its temporary files.                                            *)
(*                                                                         *)
(* Strings are sequences of one-character strings, so that split, lower,  *)
(* endswith, replace and + are computed as Python computes them.  The     *)
(* /tmp file system is shared by every invocation that runs in the same   *)
(* execution environment.  A literal of the source that is never taken    *)
(* apart ("/tmp/LayerModule_", "_layer_ver_") is one element.             *)
(*                                                                         *)
(* An action is one statement, or a few consecutive statements, of        *)
(* lambda_handler; an uncaught exception ends the invocation with         *)
(* raised set and no response.  What pip, the directory listing, the     *)
(* disk and the Lambda service do is chosen nondeterministically.         *)
(***************************************************************************)
EXTENDS Integers, Sequences, FiniteSets, TLC

VARIABLES
    dirs,          \* /tmp: existing directory path -> [files, subdirs, nested]
    inv,           \* per invocation slot: the locals of lambda_handler
    invocations,   \* number of invocations started so far (the clock)
    version_info   \* sys.version_info[0:2] of the runtime

vars == <<dirs, inv, invocations, version_info>>

\* ---------------------------------------------------------------- bounds

\* Invocations started in one run of the sequential specification.
MaxInvocations == 2

\* Longest source archive of the relocation specification.
MaxEntries == 2

Procs == {1, 2}

\* ---------------------------------------------------------------- strings

\* str.lower() on the characters the model uses.
LowerChar(c) ==
    CASE c = "W" -> "w"
      [] c = "H" -> "h"
      [] c = "L" -> "l"
      [] c = "Q" -> "q"
      [] OTHER -> c

Lower(s) == [k \in 1..Len(s) |-> LowerChar(s[k])]

\* str.endswith(suffix)
EndsWith(s, suffix) ==
    /\ Len(s) >= Len(suffix)
    /\ SubSeq(s, Len(s) - Len(suffix) + 1, Len(s)) = suffix

\* str.split(sep) for a one-character separator: always at least one field.
RECURSIVE Split(_, _)
Split(s, sep) ==
    IF \A k \in 1..Len(s) : s[k] # sep
    THEN <<s>>
    ELSE LET k == CHOOSE j \in 1..Len(s) :
                      s[j] = sep /\ \A h \in 1..(j - 1) : s[h] # sep
         IN  <<SubSeq(s, 1, k - 1)>> \o Split(SubSeq(s, k + 1, Len(s)), sep)

\* str.replace(c, "") for a one-character c.
RECURSIVE Remove(_, _)
Remove(s, c) ==
    IF s = <<>> THEN <<>>
    ELSE (IF Head(s) = c THEN <<>> ELSE <<Head(s)>>) \o Remove(Tail(s), c)

\* str(n) for a natural number.
Digits == <<"0", "1", "2", "3", "4", "5", "6", "7", "8", "9">>

RECURSIVE Str(_)
Str(n) == IF n < 10 THEN <<Digits[n + 1]>>
          ELSE Str(n \div 10) \o <<Digits[(n % 10) + 1]>>

\* ---------------------------------------------------------------- inputs

ExamplePkg == <<"e", "x", "a", "m", "p", "l", "e", "p", "k", "g">>

\* event["ModuleName"]: the key may be absent, and the value may be "".
ModuleNames == {<<>>, ExamplePkg}

\* event["CustomLayerName"]
CustomLayerNames == {<<>>, <<"L", "1">>}

Events ==
    [hasModuleName : {TRUE}, ModuleName : ModuleNames,
     hasCustomLayerName : {TRUE}, CustomLayerName : CustomLayerNames]
    \cup [hasModuleName : {TRUE}, ModuleName : ModuleNames,
          hasCustomLayerName : {FALSE}, CustomLayerName : {<<>>}]
    \cup [hasModuleName : {FALSE}, ModuleName : {<<>>},
          hasCustomLayerName : {FALSE}, CustomLayerName : {<<>>}]

\* Events of the concurrent specification: no custom layer name.
ConcEvents == {e \in Events : ~e.hasCustomLayerName}

PythonVersions == {<<3, 9>>, <<3, 10>>}

\* Files pip may leave in --dest.
\* examplepkg-1.2.3-py3-none-any.whl
WheelExample ==
    ExamplePkg \o <<"-", "1", ".", "2", ".", "3", "-", "p", "y", "3", "-",
                    "n", "o", "n", "e", "-", "a", "n", "y", ".", "w", "h", "l">>
\* Q-2.0.WHL : two hyphen-delimited fields, upper-case extension
WheelUpper == <<"Q", "-", "2", ".", "0", ".", "W", "H", "L">>
\* q.whl : one hyphen-delimited field
WheelNoHyphen == <<"q", ".", "w", "h", "l">>
\* q-1.0.tgz : a source distribution, not a wheel
SdistName == <<"q", "-", "1", ".", "0", ".", "t", "g", "z">>

\* ---------------------------------------------------------------- archives

\* An archive member: name, metadata (permission bits, timestamp,
\* compression method, kept as one value) and decoded content.
EntryNames == {<<"a">>, <<"b">>}
EntryMetas == {"m1", "m2"}
EntryContents == {"c1", "c2"}
Entries == [filename : EntryNames, meta : EntryMetas, content : EntryContents]

RECURSIVE SeqsUpTo(_, _)
SeqsUpTo(S, n) ==
    IF n = 0 THEN {<<>>}
    ELSE LET shorter == SeqsUpTo(S, n - 1)
         IN  shorter \cup {Append(s, e) : s \in {t \in shorter : Len(t) = n - 1}, e \in S}

\* Every source archive of the relocation specification.
SourceArchives == SeqsUpTo(Entries, MaxEntries)

\* The archive inside the wheels of the invocation specifications.
SampleArchive ==
    <<[filename |-> <<"a">>, meta |-> "m1", content |-> "c1"],
      [filename |-> <<"b">>, meta |-> "m2", content |-> "c2"]>>

\* File data: a zip archive, a zip still being written (no central
\* directory yet), or bytes that are no zip at all.
ZipData(entries) == [kind |-> "zip", entries |-> entries]
PartialData(entries) == [kind |-> "partial", entries |-> entries]
OtherData == [kind |-> "other", entries |-> <<>>]

File(name, data) == [name |-> name, data |-> data]

\* ---------------------------------------------------------------- zipfile

\* zipfile.ZipFile(path, 'r') on a zip: filelist holds one ZipInfo per
\* member of the central directory; contents[k] are the decoded bytes
\* found at member k's header.
OpenRead(data) ==
    [filelist |-> [k \in 1..Len(data.entries) |->
                      [filename |-> data.entries[k].filename,
                       orig_filename |-> data.entries[k].filename,
                       meta |-> data.entries[k].meta]],
     contents |-> [k \in 1..Len(data.entries) |-> data.entries[k].content]]

NoZipFile == [filelist |-> <<>>, contents |-> <<>>]

\* ZipFile.NameToInfo[name]: the dictionary is filled in central-directory
\* order, so a repeated name maps to its last member.
NameToInfo(z, name) ==
    CHOOSE k \in 1..Len(z.filelist) :
        /\ z.filelist[k].orig_filename = name
        /\ \A j \in (k + 1)..Len(z.filelist) : z.filelist[j].orig_filename # name

\* ZipFile.read(name): getinfo(name), then the bytes of that member.
ZipRead(z, name) == z.contents[NameToInfo(z, name)]

\* ---------------------------------------------------------------- names

PythonVersionDot(v) == Str(v[1]) \o <<".">> \o Str(v[2])

PythonVersionNoDot(v) == Str(v[1]) \o Str(v[2])

ExtendedPythonModulePathName(v) ==
    <<"/python/lib/python">> \o PythonVersionDot(v) \o <<"/site-packages">>

\* NewFileName of one member
NewFileName(v, CurrentFileName) ==
    ExtendedPythonModulePathName(v) \o <<"/">> \o CurrentFileName

\* TmpModuleFolderName without the module name: one download folder for all.
TmpModuleFolderName_Shared(ModuleName) == <<"/tmp/LayerModule_">>

TmpModuleFolderName(ModuleName) == <<"/tmp/LayerModule_">> \o ModuleName

TmpPipCacheFolderName == <<"/tmp/pipcachedir/">>

\* datetime.now().isoformat(timespec='seconds'), one value per invocation
DateTimeString(n) == <<"T">> \o Str(n)

NewZipFileName(ModuleName, ModuleVersion, n) ==
    ModuleName \o <<"_layer_ver_">> \o ModuleVersion \o <<"_">>
        \o DateTimeString(n) \o <<".", "z", "i", "p">>

SplitFileName(WheelFileName) == Split(WheelFileName, "-")

IsWheel(file) == EndsWith(Lower(file), <<".", "w", "h", "l">>)

\* GeneratedLayerName with the dots of the version left in.
GeneratedLayerName_KeepDots(ModuleName, ModuleVersion, v) ==
    ModuleName \o <<"_">> \o ModuleVersion \o <<"_", "p", "y">>
        \o PythonVersionNoDot(v)

GeneratedLayerName(ModuleName, ModuleVersion, v) ==
    ModuleName \o <<"_">> \o Remove(ModuleVersion, ".") \o <<"_", "p", "y">>
        \o PythonVersionNoDot(v)

\* Lines 201-207: "" selects the generated name.
LayerNameFor(CustomLayerName, ModuleName, ModuleVersion, v) ==
    IF CustomLayerName = <<>>
    THEN GeneratedLayerName(ModuleName, ModuleVersion, v)
    ELSE CustomLayerName

\* ---------------------------------------------------------------- /tmp

EmptyDir == [files |-> {}, subdirs |-> FALSE, nested |-> FALSE]

Exists(fs, d) == d \in DOMAIN fs

\* os.mkdir of a path that does not exist
Mkdir(fs, d) == [x \in (DOMAIN fs) \cup {d} |-> IF x = d THEN EmptyDir ELSE fs[x]]

\* for root, dirs, files in os.walk(d): os.remove every file.  The files of
\* every level go; the sub-directories themselves stay.
WalkRemoveFiles(fs, d) == [fs EXCEPT ![d].files = {}, ![d].nested = FALSE]

\* shutil.rmtree(d), and os.rmdir(d) of an empty d
RemoveDir(fs, d) == [x \in (DOMAIN fs) \ {d} |-> fs[x]]

RemoveFile(fs, d, name) == [fs EXCEPT ![d].files = {f \in @ : f.name # name}]

WriteFile(fs, d, name, data) ==
    [fs EXCEPT ![d].files = {f \in @ : f.name # name} \cup {File(name, data)}]

IsEmptyDir(fs, d) == fs[d].files = {} /\ ~fs[d].subdirs

FileData(fs, d, name) == (CHOOSE f \in fs[d].files : f.name = name).data

\* What pip leaves in --dest when it returns 0.
Downloads ==
    { {},
      {File(WheelExample, ZipData(SampleArchive))},
      {File(WheelExample, OtherData)},
      {File(WheelNoHyphen, ZipData(SampleArchive))},
      {File(SdistName, OtherData)},
      {File(WheelExample, ZipData(SampleArchive)),
       File(WheelUpper, ZipData(SampleArchive))} }

\* pip writes below --cache-dir (creating what is missing) or does not.
PipCache(fs, written) ==
    IF ~written THEN fs
    ELSE [x \in (DOMAIN fs) \cup {TmpPipCacheFolderName} |->
             IF x = TmpPipCacheFolderName
             THEN [files |-> {File(<<"selfcheck">>, OtherData)},
                   subdirs |-> TRUE, nested |-> TRUE]
             ELSE fs[x]]

\* ---------------------------------------------------------------- handler state

NoResponse == [StatusCode |-> 0, FunctionError |-> "", Payload |-> <<>>]

Response(code, error, payload) ==
    [StatusCode |-> code, FunctionError |-> error, Payload |-> payload]

NoEvent == [hasModuleName |-> FALSE, ModuleName |-> <<>>,
            hasCustomLayerName |-> FALSE, CustomLayerName |-> <<>>]

\* The locals of lambda_handler, and what the invocation has done so far.
NewInvocation(e, n) ==
    [pc |-> "getModuleName", event |-> e, started |-> n,
     ModuleName |-> <<>>, CustomLayerName |-> <<>>,
     WheelFileName |-> <<>>, ModuleVersion |-> <<>>, NewZipFileName |-> <<>>,
     InZipFile |-> NoZipFile, OutZipFile |-> <<>>, i |-> 1,
     WheelContent |-> OtherData, NewLayerName |-> <<>>,
     response |-> NoResponse, raised |-> "",
     published |-> <<>>,      \* calls of publish_layer_version
     trace |-> <<>>,          \* milestones, in the order they happened
     touched |-> {}]          \* directories cleared, listed, read or deleted

IdleInvocation == [NewInvocation(NoEvent, 0) EXCEPT !.pc = "idle"]

Ended(p) == inv[p].pc = "done"

Running(p) == inv[p].pc \notin {"idle", "done"}

TmpModuleFolder(p) == TmpModuleFolderName(inv[p].ModuleName)

\* return {...}
Return(r, resp) == [r EXCEPT !.pc = "done", !.response = resp]

\* an exception no handler catches ends the invocation without a response
Raise(r, exc) == [r EXCEPT !.pc = "done", !.raised = exc]

\* ---------------------------------------------------------------- lambda_handler

Init ==
    /\ dirs = <<>>
    /\ inv = [p \in Procs |-> IdleInvocation]
    /\ invocations = 0
    /\ version_info \in PythonVersions

\* The service invokes the handler; in a warm execution environment one
\* invocation runs at a time (in the first slot) and /tmp is what the
\* earlier ones left.
StartSeq(p) ==
    /\ invocations < MaxInvocations
    /\ \A q \in Procs : ~Running(q) /\ p <= q
    /\ \E e \in Events :
           inv' = [q \in Procs |-> IF q = p THEN NewInvocation(e, invocations + 1)
                                   ELSE IdleInvocation]
    /\ invocations' = invocations + 1
    /\ UNCHANGED <<dirs, version_info>>

\* Two invocations with different module identifiers that share /tmp.
StartConc(p) ==
    /\ inv[p].pc = "idle"
    /\ \E e \in ConcEvents :
           /\ \A q \in Procs \ {p} :
                  inv[q].pc # "idle" =>
                      <<inv[q].event.hasModuleName, inv[q].event.ModuleName>>
                          # <<e.hasModuleName, e.ModuleName>>
           /\ inv' = [inv EXCEPT ![p] = NewInvocation(e, invocations + 1)]
    /\ invocations' = invocations + 1
    /\ UNCHANGED <<dirs, version_info>>

\* Lines 42-60: event["ModuleName"], event["CustomLayerName"].
GetModuleName(p) ==
    /\ inv[p].pc = "getModuleName"
    /\ inv' = [inv EXCEPT ![p] =
                 IF ~inv[p].event.hasModuleName
                 THEN Return(@, Response(404, "ResourceNotFoundException",
                          <<"No argument for ModuleName was provided in the context name: ",
                            "\\nError: ", "'ModuleName'">>))
                 ELSE [@ EXCEPT !.pc = "mkdirModule",
                                !.ModuleName = inv[p].event.ModuleName,
                                !.CustomLayerName =
                                    IF inv[p].event.hasCustomLayerName
                                    THEN inv[p].event.CustomLayerName
                                    ELSE <<>>]]
    /\ UNCHANGED <<dirs, invocations, version_info>>

\* Lines 72-91, one folder: os.mkdir, and on FileExistsError the os.walk
\* loop that removes files.
PrepareFolder(fs, d) == IF Exists(fs, d) THEN WalkRemoveFiles(fs, d) ELSE Mkdir(fs, d)

\* Lines 72-82
MkdirModule(p) ==
    /\ inv[p].pc = "mkdirModule"
    /\ dirs' = PrepareFolder(dirs, TmpModuleFolder(p))
    /\ inv' = [inv EXCEPT ![p].pc = "mkdirCache",
                          ![p].touched = @ \cup {TmpModuleFolder(p)}]
    /\ UNCHANGED <<invocations, version_info>>

\* Lines 85-91
MkdirCache(p) ==
    /\ inv[p].pc = "mkdirCache"
    /\ dirs' = PrepareFolder(dirs, TmpPipCacheFolderName)
    /\ inv' = [inv EXCEPT ![p].pc = "pip",
                          ![p].touched = @ \cup {TmpPipCacheFolderName}]
    /\ UNCHANGED <<invocations, version_info>>

\* Lines 103-116: python -m pip download ModuleName --no-deps --dest ...
\* --cache-dir ...; the outcome is pip's.
PipDownload(p) ==
    /\ inv[p].pc = "pip"
    /\ \E returncode \in {0, 1}, cached \in BOOLEAN, files \in Downloads :
           /\ returncode # 0 => files = {}
           /\ dirs' = [PipCache(dirs, cached) EXCEPT
                          ![TmpModuleFolder(p)].files = @ \cup files]
           /\ inv' = [inv EXCEPT ![p] =
                        IF returncode = 0
                        THEN [@ EXCEPT !.pc = "listdir",
                                       !.trace = Append(@, "resolved")]
                        ELSE Return(@, Response(404, "ResourceNotFoundException",
                                 <<"pip was not able to find a module for ">>
                                     \o inv[p].ModuleName \o <<"\\nError:", "stderr">>))]
    /\ UNCHANGED <<invocations, version_info>>

\* Lines 120-125: the wheels os.listdir may yield first; the order of a
\* directory listing is arbitrary.
WheelsListed(fs, d) == {f.name : f \in {g \in fs[d].files : IsWheel(g.name)}}

\* Lines 119-135
ListDir(p) ==
    /\ inv[p].pc = "listdir"
    /\ LET found == WheelsListed(dirs, TmpModuleFolder(p))
       IN  IF found = {}
           THEN inv' = [inv EXCEPT ![p] =
                          Return([@ EXCEPT !.touched = @ \cup {TmpModuleFolder(p)}],
                                 Response(404, "ResourceNotFoundException",
                                   <<"pip was not able to download a wheel file for ">>
                                       \o inv[p].ModuleName))]
           ELSE \E file \in found :
                    inv' = [inv EXCEPT ![p].pc = "version",
                                       ![p].WheelFileName = file,
                                       ![p].trace = Append(@, "found"),
                                       ![p].touched = @ \cup {TmpModuleFolder(p)}]
    /\ UNCHANGED <<dirs, invocations, version_info>>

\* Lines 144-165: SplitFileName[1] raises IndexError on a one-field name.
Version(p) ==
    /\ inv[p].pc = "version"
    /\ LET fields == SplitFileName(inv[p].WheelFileName)
       IN  inv' = [inv EXCEPT ![p] =
                     IF Len(fields) < 2
                     THEN Raise(@, "IndexError")
                     ELSE [@ EXCEPT !.pc = "openIn",
                                    !.ModuleVersion = fields[2],
                                    !.NewZipFileName =
                                        NewZipFileName(inv[p].ModuleName, fields[2],
                                                       inv[p].started)]]
    /\ UNCHANGED <<dirs, invocations, version_info>>

\* Line 175: zipfile.ZipFile(WheelFolderFileName, 'r') raises BadZipFile on
\* a file that is no zip.
OpenIn(p) ==
    /\ inv[p].pc = "openIn"
    /\ LET data == FileData(dirs, TmpModuleFolder(p), inv[p].WheelFileName)
       IN  inv' = [inv EXCEPT ![p] =
                     IF data.kind # "zip"
                     THEN Raise(@, "BadZipFile")
                     ELSE [@ EXCEPT !.pc = "openOut", !.InZipFile = OpenRead(data)]]
    /\ UNCHANGED <<dirs, invocations, version_info>>

\* LoopDone one member early.
LoopDone_Early(p) == inv[p].i >= Len(inv[p].InZipFile.filelist)

\* for curZipInfo in InZipFile.infolist(): the loop is over.
LoopDone(p) == inv[p].i > Len(inv[p].InZipFile.filelist)

\* Line 176: zipfile.ZipFile(NewZipFolderFileName, 'w') creates the file.
OpenOut(p) ==
    /\ inv[p].pc = "openOut"
    /\ dirs' = WriteFile(dirs, TmpModuleFolder(p), inv[p].NewZipFileName,
                         PartialData(<<>>))
    /\ inv' = [inv EXCEPT ![p].pc = "loop", ![p].i = 1, ![p].OutZipFile = <<>>,
                          ![p].trace = IF inv[p].InZipFile.filelist = <<>>
                                       THEN Append(@, "written") ELSE @]
    /\ UNCHANGED <<invocations, version_info>>

\* Line 179: DataBuffer = InZipFile.read(CurrentFileName)
DataBuffer(z, curZipInfo) == ZipRead(z, curZipInfo.filename)

\* Lines 178-183: the member OutZipFile.writestr(curZipInfo, DataBuffer)
\* appends for member k of z.
Relocated(z, k, v) ==
    [filename |-> NewFileName(v, z.filelist[k].filename),
     meta |-> z.filelist[k].meta,
     content |-> DataBuffer(z, z.filelist[k])]

\* Lines 177-183: one iteration.
LoopStep(p) ==
    /\ inv[p].pc = "loop"
    /\ ~LoopDone(p)
    /\ LET z == inv[p].InZipFile
           k == inv[p].i
           out == Append(inv[p].OutZipFile, Relocated(z, k, version_info))
       IN  /\ inv' = [inv EXCEPT
                        ![p].InZipFile.filelist[k].filename =
                            NewFileName(version_info, z.filelist[k].filename),
                        ![p].OutZipFile = out,
                        ![p].i = k + 1,
                        ![p].trace = IF k = Len(z.filelist)
                                     THEN Append(@, "written") ELSE @]
           /\ dirs' = WriteFile(dirs, TmpModuleFolder(p), inv[p].NewZipFileName,
                                PartialData(out))
    /\ UNCHANGED <<invocations, version_info>>

\* LoopFail with the exception swallowed: the member is skipped.
LoopFail_Swallow(p) ==
    /\ inv[p].pc = "loop"
    /\ inv[p].i <= Len(inv[p].InZipFile.filelist)
    /\ inv' = [inv EXCEPT ![p].i = @ + 1]
    /\ UNCHANGED <<dirs, invocations, version_info>>

\* Lines 179 and 183 can raise: a member that does not decode, or /tmp
\* (512 MB) full while writing.  Nothing catches it.
LoopFail(p) ==
    /\ inv[p].pc = "loop"
    /\ ~LoopDone(p)
    /\ inv' = [inv EXCEPT ![p] = Raise(@, "IOError")]
    /\ UNCHANGED <<dirs, invocations, version_info>>

\* Lines 186-189: InZipFile.close(); os.remove(WheelFolderFileName)
RemoveWheel(p) ==
    /\ inv[p].pc = "loop"
    /\ LoopDone(p)
    /\ dirs' = RemoveFile(dirs, TmpModuleFolder(p), inv[p].WheelFileName)
    /\ inv' = [inv EXCEPT ![p].pc = "closeOut",
                          ![p].trace = Append(@, "wheelRemoved")]
    /\ UNCHANGED <<invocations, version_info>>

\* Line 192: OutZipFile.close() writes the central directory.
CloseOut(p) ==
    /\ inv[p].pc = "closeOut"
    /\ dirs' = WriteFile(dirs, TmpModuleFolder(p), inv[p].NewZipFileName,
                         ZipData(inv[p].OutZipFile))
    /\ inv' = [inv EXCEPT ![p].pc = "rmtreeCache",
                          ![p].trace = Append(@, "outClosed")]
    /\ UNCHANGED <<invocations, version_info>>

\* Line 195: shutil.rmtree(TmpPipCacheFolderName) raises FileNotFoundError
\* when the folder is gone.
RmtreeCache(p) ==
    /\ inv[p].pc = "rmtreeCache"
    /\ IF Exists(dirs, TmpPipCacheFolderName)
       THEN /\ dirs' = RemoveDir(dirs, TmpPipCacheFolderName)
            /\ inv' = [inv EXCEPT ![p].pc = "readZip",
                                  ![p].trace = Append(@, "cacheRemoved"),
                                  ![p].touched = @ \cup {TmpPipCacheFolderName}]
       ELSE /\ dirs' = dirs
            /\ inv' = [inv EXCEPT ![p] =
                         Raise([@ EXCEPT !.touched = @ \cup {TmpPipCacheFolderName}],
                               "FileNotFoundError")]
    /\ UNCHANGED <<invocations, version_info>>

\* Lines 198-207: read the new zip, choose the layer name.
ReadZip(p) ==
    /\ inv[p].pc = "readZip"
    /\ inv' = [inv EXCEPT
                 ![p].pc = "publish",
                 ![p].WheelContent =
                     FileData(dirs, TmpModuleFolder(p), inv[p].NewZipFileName),
                 ![p].NewLayerName =
                     LayerNameFor(inv[p].CustomLayerName, inv[p].ModuleName,
                                  inv[p].ModuleVersion, version_info)]
    /\ UNCHANGED <<dirs, invocations, version_info>>

\* What follows publish_layer_version: lines 213-219 on an exception, else
\* line 224 onwards.
AfterPublish(r, ok) ==
    IF ok THEN [r EXCEPT !.pc = "cleanup"]
    ELSE Return(r, Response(500, "ServiceException",
             <<"There was a problem when calling the Python boto3 publish_layer_version function: ",
               "error">>))

\* Lines 209-219: boto3 publish_layer_version; the outcome is the service's.
Publish(p) ==
    /\ inv[p].pc = "publish"
    /\ \E ok \in BOOLEAN :
           inv' = [inv EXCEPT ![p] =
                     AfterPublish(
                       [@ EXCEPT !.published =
                            Append(@, [LayerName |-> inv[p].NewLayerName,
                                       Content |-> inv[p].WheelContent,
                                       CompatibleRuntimes |->
                                           <<"python">> \o PythonVersionDot(version_info),
                                       ok |-> ok]),
                                 !.trace = Append(@, "published")],
                       ok)]
    /\ UNCHANGED <<dirs, invocations, version_info>>

\* Cleanup without os.rmdir.
Cleanup_KeepFolder(p) ==
    /\ inv[p].pc = "cleanup"
    /\ dirs' = RemoveFile(dirs, TmpModuleFolder(p), inv[p].NewZipFileName)
    /\ inv' = [inv EXCEPT ![p] =
                 Return(@, Response(200, "",
                     <<"New layer was succesfully created with the name ">>
                         \o inv[p].NewLayerName))]
    /\ UNCHANGED <<invocations, version_info>>

\* Lines 224-230: os.remove(NewZipFolderFileName); os.rmdir(TmpModuleFolderName)
\* raises OSError on a folder that is not empty.
Cleanup(p) ==
    /\ inv[p].pc = "cleanup"
    /\ LET d == TmpModuleFolder(p)
           removed == RemoveFile(dirs, d, inv[p].NewZipFileName)
       IN  IF IsEmptyDir(removed, d)
           THEN /\ dirs' = RemoveDir(removed, d)
                /\ inv' = [inv EXCEPT ![p] =
                             Return(@, Response(200, "",
                                 <<"New layer was succesfully created with the name ">>
                                     \o inv[p].NewLayerName))]
           ELSE /\ dirs' = removed
                /\ inv' = [inv EXCEPT ![p] = Raise(@, "OSError")]
    /\ UNCHANGED <<invocations, version_info>>

\* One step of the handler.
Step(p) ==
    \/ GetModuleName(p)
    \/ MkdirModule(p)
    \/ MkdirCache(p)
    \/ PipDownload(p)
    \/ ListDir(p)
    \/ Version(p)
    \/ OpenIn(p)
    \/ OpenOut(p)
    \/ LoopStep(p)
    \/ LoopFail(p)
    \/ RemoveWheel(p)
    \/ CloseOut(p)
    \/ RmtreeCache(p)
    \/ ReadZip(p)
    \/ Publish(p)
    \/ Cleanup(p)

Next == \E p \in Procs : StartSeq(p) \/ Step(p)

\* Invocations of a warm execution environment, one after the other.
Spec == Init /\ [][Next]_vars

NextConc == \E p \in Procs : StartConc(p) \/ Step(p)

\* Two concurrent invocations over one /tmp.
SpecConc == Init /\ [][NextConc]_vars

\* ---------------------------------------------------------------- relocation alone

\* Line 175 reached with a wheel that holds any archive of at most
\* MaxEntries members: pip has downloaded it, lines 120-165 have run.
InitRelocate ==
    /\ version_info \in PythonVersions
    /\ invocations = 1
    /\ \E S \in SourceArchives :
           dirs = [d \in {TmpModuleFolderName(ExamplePkg), TmpPipCacheFolderName} |->
                      IF d = TmpPipCacheFolderName THEN EmptyDir
                      ELSE [EmptyDir EXCEPT !.files = {File(WheelExample, ZipData(S))}]]
    /\ inv = [p \in Procs |->
                IF \E q \in Procs : q < p THEN IdleInvocation
                ELSE [NewInvocation([NoEvent EXCEPT !.hasModuleName = TRUE,
                                                    !.ModuleName = ExamplePkg], 1)
                        EXCEPT !.pc = "openIn",
                               !.ModuleName = ExamplePkg,
                               !.WheelFileName = WheelExample,
                               !.ModuleVersion = SplitFileName(WheelExample)[2],
                               !.NewZipFileName =
                                   NewZipFileName(ExamplePkg,
                                                  SplitFileName(WheelExample)[2], 1),
                               !.trace = <<"resolved", "found">>,
                               !.touched = {TmpModuleFolderName(ExamplePkg),
                                            TmpPipCacheFolderName}]]

\* Lines 175-189
NextRelocate ==
    \E p \in Procs :
        OpenIn(p) \/ OpenOut(p) \/ LoopStep(p) \/ LoopFail(p) \/ RemoveWheel(p)

SpecRelocate == InitRelocate /\ [][NextRelocate]_vars

\* ---------------------------------------------------------------- properties

FileNames(fs, d) == IF Exists(fs, d) THEN {f.name : f \in fs[d].files} ELSE {}

PublishAttempted(p) == inv[p].published # <<>>

PublishSucceeded(p) == \E k \in 1..Len(inv[p].published) : inv[p].published[k].ok

Returned(p) == Ended(p) /\ inv[p].response.StatusCode # 0

\* The source archive as it is on disk while the loop runs.
SourceOf(p) == FileData(dirs, TmpModuleFolder(p), inv[p].WheelFileName).entries

\* C1: when the relocation loop has run over source archive S, the output
\* has as many members as S, in the same order, and member k has name
\* P + "/" + S[k].name with the content and metadata of S[k], repeated
\* names included.
C1_EveryEntryRelocated ==
    \A p \in Procs :
        (inv[p].pc = "loop" /\ LoopDone(p)) =>
            LET S == SourceOf(p)
                out == inv[p].OutZipFile
            IN  /\ Len(out) = Len(S)
                /\ \A k \in 1..Len(S) :
                       /\ out[k].filename =
                              ExtendedPythonModulePathName(version_info)
                                  \o <<"/">> \o S[k].filename
                       /\ out[k].content = S[k].content
                       /\ out[k].meta = S[k].meta

\* The same for a source archive whose names are all distinct.
RelocatedWhenNamesDistinct ==
    \A p \in Procs :
        (inv[p].pc = "loop" /\ LoopDone(p)) =>
            LET S == SourceOf(p)
                out == inv[p].OutZipFile
            IN  (\A j, k \in 1..Len(S) : S[j].filename = S[k].filename => j = k) =>
                    /\ Len(out) = Len(S)
                    /\ \A k \in 1..Len(S) :
                           /\ out[k].filename =
                                  ExtendedPythonModulePathName(version_info)
                                      \o <<"/">> \o S[k].filename
                           /\ out[k].content = S[k].content
                           /\ out[k].meta = S[k].meta

\* C2 as stated: an invocation that attempted to publish and returns has
\* left no temporary artifact: the module folder (with the relocated
\* archive and the wheel) and the cache folder are gone.
C2_NoArtifactAfterPublishAttempt ==
    \A p \in Procs :
        (Returned(p) /\ PublishAttempted(p)) =>
            /\ ~Exists(dirs, TmpModuleFolder(p))
            /\ ~Exists(dirs, TmpPipCacheFolderName)

\* C2 amended: at the 200 return the module folder and the cache folder are
\* gone; at the 500 return the wheel and the cache folder are gone and the
\* relocated archive is still in the module folder.
C2_ArtifactsAtReturn ==
    \A p \in Procs :
        (Returned(p) /\ PublishAttempted(p)) =>
            /\ inv[p].response.StatusCode = 200 =>
                   /\ ~Exists(dirs, TmpModuleFolder(p))
                   /\ ~Exists(dirs, TmpPipCacheFolderName)
            /\ inv[p].response.StatusCode = 500 =>
                   /\ ~Exists(dirs, TmpPipCacheFolderName)
                   /\ Exists(dirs, TmpModuleFolder(p))
                   /\ inv[p].WheelFileName \notin FileNames(dirs, TmpModuleFolder(p))
                   /\ inv[p].NewZipFileName \in FileNames(dirs, TmpModuleFolder(p))

\* C2 witness: a second invocation found the folder of a failed one, published
\* and returned 200.
C2_Witness ==
    \E p \in Procs :
        /\ Returned(p)
        /\ PublishSucceeded(p)
        /\ inv[p].response.StatusCode = 200
        /\ inv[p].started > 1

\* C3: every invocation ends with a response of status 200, 404 or 500:
\* 200 naming the layer when the publish call succeeded, 500 when it was
\* made and failed, 404 when the invocation stopped before publishing.
C3_StatusByOutcome ==
    \A p \in Procs :
        Ended(p) =>
            /\ inv[p].response.StatusCode \in {200, 404, 500}
            /\ PublishSucceeded(p) =>
                   /\ inv[p].response.StatusCode = 200
                   /\ inv[p].response.Payload =
                          <<"New layer was succesfully created with the name ">>
                              \o inv[p].published[1].LayerName
            /\ (PublishAttempted(p) /\ ~PublishSucceeded(p)) =>
                   inv[p].response.StatusCode = 500
            /\ ~PublishAttempted(p) => inv[p].response.StatusCode = 404

\* C4: with the module identifier missing or empty the invocation touches
\* no scratch folder and never reaches pip, and it returns 404 with
\* ResourceNotFoundException.
C4_FailFastOnMissingOrEmpty ==
    \A p \in Procs :
        (inv[p].pc # "idle"
            /\ (~inv[p].event.hasModuleName \/ inv[p].event.ModuleName = <<>>)) =>
            /\ inv[p].pc \in {"getModuleName", "done"}
            /\ inv[p].touched = {}
            /\ Ended(p) =>
                   /\ inv[p].response.StatusCode = 404
                   /\ inv[p].response.FunctionError = "ResourceNotFoundException"

\* C5: when pip is invoked the download folder and the cache folder both
\* exist and hold nothing, neither files nor sub-directories, whatever an
\* earlier invocation left.
C5_ScratchEmptyAtResolver ==
    \A p \in Procs :
        inv[p].pc = "pip" =>
            /\ Exists(dirs, TmpModuleFolder(p))
            /\ Exists(dirs, TmpPipCacheFolderName)
            /\ dirs[TmpModuleFolder(p)] = EmptyDir
            /\ dirs[TmpPipCacheFolderName] = EmptyDir

\* C6: an invocation whose selected wheel name has fewer than two
\* hyphen-delimited fields ends with a 404 response and has not published.
C6_MalformedNameIs404 ==
    \A p \in Procs :
        (Ended(p) /\ inv[p].WheelFileName # <<>>
            /\ Len(SplitFileName(inv[p].WheelFileName)) < 2) =>
            /\ inv[p].response.StatusCode = 404
            /\ ~PublishAttempted(p)

\* str(major) + str(minor), written out for the runtimes of the model.
RuntimeDigits == IF version_info = <<3, 9>> THEN <<"3", "9">> ELSE <<"3", "1", "0">>

\* C7: the layer name given to publish_layer_version is the custom layer
\* name when the request supplies one (a non-empty string), and otherwise
\* ModuleName + "_" + version without dots + "_py" + major + minor;
\* examplepkg, 1.2.3 and runtime 3.9 give examplepkg_123_py39.
C7_LayerName ==
    \A p \in Procs :
        \A k \in 1..Len(inv[p].published) :
            LET e == inv[p].event
                name == inv[p].published[k].LayerName
            IN  /\ (e.hasCustomLayerName /\ e.CustomLayerName # <<>>) =>
                       name = e.CustomLayerName
                /\ ~(e.hasCustomLayerName /\ e.CustomLayerName # <<>>) =>
                       /\ name = e.ModuleName \o <<"_">>
                              \o SelectSeq(inv[p].ModuleVersion, LAMBDA c : c # ".")
                              \o <<"_", "p", "y">> \o RuntimeDigits
                       /\ (e.ModuleName = ExamplePkg
                               /\ inv[p].WheelFileName = WheelExample
                               /\ version_info = <<3, 9>>) =>
                              name = ExamplePkg
                                  \o <<"_", "1", "2", "3", "_", "p", "y", "3", "9">>

\* C7 witness: examplepkg published under its generated name on runtime 3.9.
C7_Witness ==
    \E p \in Procs :
        /\ PublishAttempted(p)
        /\ ~inv[p].event.hasCustomLayerName
        /\ inv[p].event.ModuleName = ExamplePkg
        /\ inv[p].WheelFileName = WheelExample
        /\ version_info = <<3, 9>>

\* C8 as stated: of two concurrent invocations with different module
\* identifiers neither touches a folder the other uses, and neither ends
\* in a way it could not end alone (rmtree of a cache folder that is gone).
C8_ScratchExclusive ==
    \A p, q \in Procs :
        p # q =>
            /\ inv[p].touched \cap inv[q].touched = {}
            /\ inv[p].raised # "FileNotFoundError"

\* The files an invocation is working on are in its module folder.
OwnFilesPresent(p) ==
    /\ inv[p].pc \in {"listdir", "version", "openIn", "openOut", "loop", "closeOut",
                      "rmtreeCache", "readZip", "publish", "cleanup"} =>
           Exists(dirs, TmpModuleFolder(p))
    /\ inv[p].pc \in {"version", "openIn", "openOut", "loop"} =>
           inv[p].WheelFileName \in FileNames(dirs, TmpModuleFolder(p))
    /\ inv[p].pc \in {"loop", "closeOut", "rmtreeCache", "readZip", "publish",
                      "cleanup"} =>
           inv[p].NewZipFileName \in FileNames(dirs, TmpModuleFolder(p))

\* C8 amended: of two concurrent invocations with different module
\* identifiers neither touches the other's module folder, and the files an
\* invocation works on stay in its module folder; only the cache folder
\* /tmp/pipcachedir/ is touched by both.
C8_ModuleFolderExclusive ==
    \A p, q \in Procs :
        p # q =>
            /\ inv[p].touched \cap inv[q].touched \subseteq {TmpPipCacheFolderName}
            /\ (inv[p].pc # "idle" /\ inv[q].pc # "idle"
                    /\ inv[p].event.hasModuleName /\ inv[q].event.hasModuleName) =>
                   TmpModuleFolderName(inv[q].event.ModuleName) \notin inv[p].touched
            /\ OwnFilesPresent(p)

\* C8 witness: both invocations ran to the 200 return, each through its own
\* module folder and both through the cache folder.
C8_Witness ==
    \A p \in Procs :
        /\ Returned(p)
        /\ inv[p].response.StatusCode = 200
        /\ TmpPipCacheFolderName \in inv[p].touched
        /\ TmpModuleFolder(p) \in inv[p].touched

\* An invocation ended by the relocator: line 175 or the loop raised.
RelocatorFailed(p) == Ended(p) /\ inv[p].raised \in {"BadZipFile", "IOError"}

\* C9 as stated: after a failure of the relocator no output archive is
\* left in the module folder and the publisher was not called.
C9_PartialOutputDiscarded ==
    \A p \in Procs :
        RelocatorFailed(p) =>
            /\ inv[p].NewZipFileName \notin FileNames(dirs, TmpModuleFolder(p))
            /\ ~PublishAttempted(p)

\* C9 amended: after a failure of the relocator the publisher is not called
\* and there is no response; a wheel that is no zip leaves no output
\* archive, a failure inside the loop leaves the partly written output
\* archive, with the members written so far, in the module folder.  What
\* is published always holds every member of the source.
C9_RelocatorFailure ==
    \A p \in Procs :
        /\ RelocatorFailed(p) =>
               /\ ~PublishAttempted(p)
               /\ inv[p].response = NoResponse
               /\ inv[p].raised = "BadZipFile" =>
                      inv[p].NewZipFileName \notin FileNames(dirs, TmpModuleFolder(p))
               /\ inv[p].raised = "IOError" =>
                      /\ inv[p].NewZipFileName \in FileNames(dirs, TmpModuleFolder(p))
                      /\ FileData(dirs, TmpModuleFolder(p), inv[p].NewZipFileName)
                             = PartialData(inv[p].OutZipFile)
                      /\ Len(inv[p].OutZipFile) < Len(inv[p].InZipFile.filelist)
        /\ \A k \in 1..Len(inv[p].published) :
               /\ inv[p].published[k].Content.kind = "zip"
               /\ Len(inv[p].published[k].Content.entries)
                      = Len(inv[p].InZipFile.filelist)

\* C9 witness: the loop raised after the first member was written.
C9_Witness ==
    \E p \in Procs :
        /\ RelocatorFailed(p)
        /\ inv[p].raised = "IOError"
        /\ Len(inv[p].OutZipFile) = 1

\* Position of a milestone in the trace of p (0 when it has not happened).
At(p, what) ==
    IF \E k \in 1..Len(inv[p].trace) : inv[p].trace[k] = what
    THEN CHOOSE k \in 1..Len(inv[p].trace) : inv[p].trace[k] = what
    ELSE 0

\* C10 as stated: at most one publish call per invocation, made after pip
\* succeeded, a wheel was found, every member was written and the output
\* archive closed, and then the wheel and the cache folder discarded, in
\* this order.
C10_PublishAfterCloseThenDiscard ==
    \A p \in Procs :
        /\ Len(inv[p].published) <= 1
        /\ PublishAttempted(p) =>
               /\ 0 < At(p, "resolved")
               /\ At(p, "resolved") < At(p, "found")
               /\ At(p, "found") < At(p, "written")
               /\ At(p, "written") < At(p, "outClosed")
               /\ At(p, "outClosed") < At(p, "wheelRemoved")
               /\ At(p, "wheelRemoved") < At(p, "cacheRemoved")
               /\ At(p, "cacheRemoved") < At(p, "published")

\* C10 amended: at most one publish call per invocation, made after, in
\* this order, pip succeeded, a wheel was found, every member was written,
\* the wheel was removed, the output archive was closed and the cache
\* folder was removed; what is published is the closed archive.
C10_PublishOnceInOrder ==
    \A p \in Procs :
        /\ Len(inv[p].published) <= 1
        /\ PublishAttempted(p) =>
               /\ inv[p].trace = <<"resolved", "found", "written", "wheelRemoved",
                                   "outClosed", "cacheRemoved", "published">>
               /\ inv[p].published[1].Content = ZipData(inv[p].OutZipFile)
               /\ Len(inv[p].OutZipFile) = Len(inv[p].InZipFile.filelist)
               /\ (inv[p].pc = "cleanup" \/ inv[p].response.StatusCode = 500) =>
                      /\ ~Exists(dirs, TmpPipCacheFolderName)
                      /\ inv[p].WheelFileName \notin FileNames(dirs, TmpModuleFolder(p))

\* C10 witness: the publish call has been made.
C10_Witness ==
    \E p \in Procs : inv[p].pc = "cleanup" /\ Len(inv[p].published) = 1

====
